---- MODULE Spec2Model ----
(***************************************************************************)
(* Model of doc_ling.py: the batch converter's run (main), its worker pool *)
(* (multiprocessing Pool.imap over process_file) and the post-run summary. *)
(* File names are sequences of one-character strings, so that suffix, stem *)
(* and lower() are computed as pathlib and str compute them.  A path is a  *)
(* sequence of names.                                                      *)
(***************************************************************************)
EXTENDS Naturals, Integers, Sequences, FiniteSets, TLC

\* ---------------------------------------------------------------- bounds

\* At most this many entries are placed in the input directory of a run.
MaxEntries == 2

\* At most this many entries are placed in the input directory when only
\* the enumeration is followed.
MaxEnumEntries == 3

\* The worker processes of the pool (cpu_count() of them on the host).
Workers == {"w1", "w2"}

\* ------------------------------------------------------- python constants

None == "None"

\* The value of a constructed easyocr Reader (any such object is truthy).
Reader == "Reader"

\* ------------------------------------------------------------- path model

Dot == "."

\* str.lower() on one character (the characters the model's names use).
LowerChar(c) ==
    CASE c = "J" -> "j"
      [] c = "P" -> "p"
      [] c = "G" -> "g"
      [] c = "D" -> "d"
      [] c = "F" -> "f"
      [] OTHER -> c

\* str.lower()
Lower(s) == [i \in 1..Len(s) |-> LowerChar(s[i])]

\* str.rfind('.') + 1: the 1-based index of the last dot of name, 0 if none.
RFindDot(name) ==
    LET idx == {i \in 1..Len(name) : name[i] = Dot}
    IN  IF idx = {} THEN 0 ELSE CHOOSE i \in idx : \A k \in idx : k <= i

\* PurePath.suffix: the last dot and what follows, unless the dot is the
\* first or the last character of the name.
Suffix(name) ==
    LET i == RFindDot(name)
    IN  IF 1 < i /\ i < Len(name) THEN SubSeq(name, i, Len(name)) ELSE <<>>

\* PurePath.stem: the name without its suffix.
Stem(name) ==
    LET i == RFindDot(name)
    IN  IF 1 < i /\ i < Len(name) THEN SubSeq(name, 1, i - 1) ELSE name

\* supported_exts of main
supported_exts ==
    { <<".", "p", "d", "f">>, <<".", "j", "p", "g">>, <<".", "j", "p", "e", "g">>,
      <<".", "p", "n", "g">>, <<".", "t", "i", "f", "f">>, <<".", "b", "m", "p">> }

\* The suffixes process_file runs OCR on.
ocr_exts ==
    { <<".", "j", "p", "g">>, <<".", "j", "p", "e", "g">>, <<".", "p", "n", "g">> }

\* format_map with a default: any other choice gives HTML.
format_map_default(choice) ==
    CASE choice = "2" -> "json"
      [] choice = "3" -> "md"
      [] choice = "4" -> "txt"
      [] choice = "5" -> "doctags"
      [] OTHER -> "html"

\* format_map of main: the user's choice to the format key; None for any
\* other choice (dict.get).
format_map(choice) ==
    CASE choice = "1" -> "html"
      [] choice = "2" -> "json"
      [] choice = "3" -> "md"
      [] choice = "4" -> "txt"
      [] choice = "5" -> "doctags"
      [] OTHER -> None

\* The characters of a format key, as a name.
Chars(key) ==
    CASE key = "html" -> <<"h", "t", "m", "l">>
      [] key = "json" -> <<"j", "s", "o", "n">>
      [] key = "md" -> <<"m", "d">>
      [] key = "txt" -> <<"t", "x", "t">>
      [] key = "doctags" -> <<"d", "o", "c", "t", "a", "g", "s">>

\* handlers of process_file: the save function a format key selects.
handlers(key) ==
    CASE key = "html" -> "_save_html"
      [] key = "json" -> "_save_json"
      [] key = "md" -> "_save_markdown"
      [] key = "txt" -> "_save_text"
      [] key = "doctags" -> "_save_doctags"

\* The first word of the line each save function logs.
SavedWord(fn) ==
    CASE fn = "_save_html" -> "Saved HTML to"
      [] fn = "_save_json" -> "Saved JSON to"
      [] fn = "_save_markdown" -> "Saved Markdown to"
      [] fn = "_save_text" -> "Saved Text to"
      [] fn = "_save_doctags" -> "Saved Doctags to"

\* base_output_dir of main: <directory of the script>/output
base_output_dir == << <<"o", "u", "t", "p", "u", "t">> >>

\* The name of the directory the input lives in (input_base.name).
InputBaseName == <<"i", "n">>

\* csv_path of main
csv_path == Append(base_output_dir, <<"s", "u", "m", "m", "a", "r", "y", ".", "c", "s", "v">>)

\* A source file is [dir |-> its parent relative to input_base (a path),
\* name |-> its name, isdir |-> whether it is a directory].
\* target_dir of process_file: output_root / format_key / input_name / relative_path
TargetDir(f, key) ==
    base_output_dir \o << Chars(key), InputBaseName >> \o f.dir

\* target_file made from the file's whole name in place of its stem.
TargetFileOfName(f, ext, key) ==
    Append(TargetDir(f, key), f.name \o <<Dot>> \o Chars(ext))

\* target_file of process_file (line 136): target_dir / f"{stem}.{ext}"
TargetFile(f, ext, key) ==
    Append(TargetDir(f, key), Stem(f.name) \o <<Dot>> \o Chars(ext))

\* The output path with the file's whole name in place of its stem.
OutputPathOfName(f, key) ==
    base_output_dir \o << Chars(key), InputBaseName >> \o f.dir
        \o << f.name \o <<Dot>> \o Chars(key) >>

\* output_path of main's two scans (lines 206-208 and 217-218), ext being
\* the format key (line 178):
\* base_output_dir / format_key / input_base.name / relative parent / f"{stem}.{ext}"
OutputPath(f, key) ==
    base_output_dir \o << Chars(key), InputBaseName >> \o f.dir
        \o << Stem(f.name) \o <<Dot>> \o Chars(key) >>

\* Path.mkdir(parents=True, exist_ok=True): the directory and all its parents.
MkdirParents(fs, dir) ==
    fs \cup {SubSeq(dir, 1, n) : n \in 1..Len(dir)}

\* Path.exists()
Exists(fs, p) == p \in fs

\* ------------------------------------------------------------ input model

NameA_pdf == <<"a", ".", "p", "d", "f">>
NameA_png == <<"a", ".", "p", "n", "g">>
NameB_JPG == <<"b", ".", "J", "P", "G">>
NameN_txt == <<"n", ".", "t", "x", "t">>
NameD_pdf == <<"d", ".", "p", "d", "f">>
NameSub == <<"s">>

File(dir, name) == [dir |-> dir, name |-> name, isdir |-> FALSE]
Dir(dir, name) == [dir |-> dir, name |-> name, isdir |-> TRUE]

\* What a run's input directory may hold: two files that differ only in
\* their extension, a file one level down with an upper-case extension, and
\* a file of another type.
Universe ==
    { File(<<>>, NameA_pdf), File(<<>>, NameA_png), File(<<NameSub>>, NameB_JPG),
      File(<<>>, NameN_txt) }

\* What the directory may hold when only the enumeration is followed: also
\* a directory whose name ends in ".pdf", a dot file named ".pdf", a file
\* without extension, and the remaining supported types.
EnumUniverse ==
    Universe \cup
    { Dir(<<>>, NameD_pdf), File(<<>>, <<".", "p", "d", "f">>), File(<<NameSub>>, <<"r">>),
      File(<<NameSub>>, <<"c", ".", "t", "i", "f", "f">>), File(<<>>, <<"e", ".", "b", "m", "p">>),
      File(<<>>, <<"f", ".", "j", "p", "e", "g">>), File(<<>>, <<"g", ".", "p", "d", "f", ".">>) }

\* What the directory of a run that is repeated may hold: the two files
\* that differ only in their extension.
RerunUniverse == { File(<<>>, NameA_pdf), File(<<>>, NameA_png) }

\* What may be given as a single input file.
SingleFiles == { File(<<>>, NameA_png), File(<<>>, NameA_pdf) }

\* The answers typed at the format prompt (after strip()).
FormatChoices == {"2", "4", "9"}

\* The errors convert may raise: the three kinds its contract names and, as
\* one of the others, the OSError of an unreadable file.
ConvertErrors == {"FileNotFoundError", "RuntimeError", "ValueError", "PermissionError"}

\* The errors mkdir and the encoders' writes may raise.
IoErrors == {"FileNotFoundError", "PermissionError"}

\* Path.rglob("*") on the input directory: every descendant, files and
\* directories alike (the directories that hold the entries included).
RGlob(entries) ==
    entries \cup {Dir(<<>>, e.dir[1]) : e \in {x \in entries : x.dir # <<>>}}

\* The comprehension of main (line 183): the descendants whose lower-cased
\* suffix is a supported extension.
Matching(entries) ==
    {f \in RGlob(entries) : Lower(Suffix(f.name)) \in supported_exts}

\* All orders in which a finite set may be listed.
Orders(S) ==
    {q \in [1..Cardinality(S) -> S] : \A i, k \in 1..Cardinality(S) : q[i] = q[k] => i = k}

\* An output tree left by an earlier run: the JSON output of a.pdf / a.png.
StaleFile == TargetFile(File(<<>>, NameA_pdf), "json", "json")
StaleTree == MkdirParents({}, TargetDir(File(<<>>, NameA_pdf), "json")) \cup {StaleFile}

\* What an output file holds: the source it was encoded from, and whether
\* the encoder wrote it to its end.
Written(p, f, whole) == [path |-> p, src |-> f, whole |-> whole]

\* The files of StaleTree with what they hold (the earlier run encoded a.pdf).
StaleContent == { Written(StaleFile, File(<<>>, NameA_pdf), TRUE) }

\* open(p, "w") and the write: whatever p held is replaced.
Overwrite(content, p, f, whole) ==
    {c \in content : c.path # p} \cup { Written(p, f, whole) }

\* ------------------------------------------------------------------ state

VARIABLES
    source_kind,     \* "missing" | "file" | "dir": what the typed input path is
    entries,         \* the input directory's entries (the file itself for "file")
    format_choice,   \* the answer at the format prompt
    ocr_answer,      \* the answer the user has for the OCR prompt (asked only
                     \* when GPU_AVAILABLE; an unasked "n" changes nothing, and
                     \* an "n" leaves a run what it is without easyocr, so it
                     \* is given for single files only)
    GPU_AVAILABLE,   \* whether easyocr imports (lines 12-16)
    prior,           \* the output tree before the run (the JSON tree of an
                     \* earlier run is left out for a text run, which maps
                     \* to none of its paths)
    fs,              \* the output tree: the set of existing paths
    content,         \* what the output files of fs hold
    log,             \* conversion.log, a sequence of lines
    console,         \* what print() wrote
    log_calls,       \* how many times log() was called
    pc_main,         \* where main is
    format_key, use_gpu, files,
    pool,            \* "none" | "running" | "terminated"
    next_job,        \* the next index of files the pool hands to a worker
    result,          \* per job: "pending" | "returned" | "raised"
    outcome,         \* per job: what its task did (see TaskRecord)
    worker,          \* per worker process: its task's local state
    built,           \* per worker: how many times it constructed the readers
    checked,         \* the paths main tested with exists(), in order
    csv,             \* conversion_summary.csv as written by this run
    success_count,
    run,             \* 1 in the first run of the program, 2 in a second one
    first            \* what the first run left (see MainAgain)

vars ==
    << source_kind, entries, format_choice, ocr_answer, GPU_AVAILABLE, prior, fs,
       content, log, console, log_calls, pc_main, format_key, use_gpu, files, pool,
       next_job, result, outcome, worker, built, checked, csv, success_count,
       run, first >>

inputs == << source_kind, entries, format_choice, ocr_answer, GPU_AVAILABLE, prior >>

runs == << run, first >>

\* A log line: the message, the path or file name it mentions, a text
\* argument and a number.
Line(msg) == [msg |-> msg, path |-> <<>>, arg |-> "", n |-> 0]
FileLine(msg, name, arg) == [msg |-> msg, path |-> <<name>>, arg |-> arg, n |-> 0]
PathLine(msg, p) == [msg |-> msg, path |-> p, arg |-> "", n |-> 0]
CountLine(msg, n) == [msg |-> msg, path |-> <<>>, arg |-> "", n |-> n]

\* The empty line a "\n" at either end of a message gives.
Blank == Line("")

\* What is recorded of a job's task: its status ("Queued", "Running", then
\* "Saved", "Failed" when the handler of line 138 logged its error, or
\* "Raised" when an exception left process_file), the last step it entered,
\* the exception, and of its OCR step: what the accelerated engine does with
\* this file when readtext is called on it (a fact of the engine, drawn
\* whether or not the step gets as far as calling it), the standard handle
\* the task held, and the number of calls made to the standard engine.
\* Then what the task called and touched: how many tasks were started for
\* the job, the calls of convert, the directories given to mkdir, the
\* target_file it computed, the save functions it called and the output
\* files those opened for writing.
NoOcr == [gpu_does |-> None, handle |-> None, cpu_calls |-> 0]
TaskRecord(status, step, exc) ==
    [status |-> status, step |-> step, exc |-> exc, ocr |-> NoOcr,
     tasks |-> 0, converts |-> 0, made |-> {}, target |-> <<>>,
     encoders |-> <<>>, wrote |-> {}]

IdleWorker ==
    [pc |-> "idle", job |-> 0, ocr_reader_gpu |-> None, ocr_reader_cpu |-> None,
     exc |-> None]

\* What is kept of a first run when there was none.
NoFirst ==
    [pc |-> "none", files |-> <<>>, outcome |-> <<>>, fs |-> {}, content |-> {},
     csv |-> <<>>, log |-> <<>>]

\* The state main starts in, whatever the inputs.
InitState ==
    /\ fs = prior
    /\ content = IF prior = {} THEN {} ELSE StaleContent
    /\ log = <<>>
    /\ console = <<>>
    /\ log_calls = 0
    /\ pc_main = "start"
    /\ format_key = None
    /\ use_gpu = FALSE
    /\ files = <<>>
    /\ pool = "none"
    /\ next_job = 1
    /\ result = <<>>
    /\ outcome = <<>>
    /\ worker = [w \in Workers |-> IdleWorker]
    /\ built = [w \in Workers |-> 0]
    /\ checked = <<>>
    /\ csv = <<>>
    /\ success_count = 0
    /\ run = 1
    /\ first = NoFirst

Init ==
    /\ source_kind \in {"missing", "file", "dir"}
    /\ entries \in
         CASE source_kind = "missing" -> {{}}
           [] source_kind = "file" -> {{f} : f \in SingleFiles}
           [] OTHER -> {S \in SUBSET Universe : Cardinality(S) <= MaxEntries}
    /\ format_choice \in FormatChoices
    /\ GPU_AVAILABLE \in BOOLEAN
    /\ ocr_answer \in IF GPU_AVAILABLE /\ source_kind = "file" THEN {"y", "n"} ELSE {"y"}
    /\ prior \in IF format_choice = "4" THEN {{}} ELSE {{}, StaleTree}
    /\ InitState

\* The enumeration alone: a directory input of any content.
InitEnum ==
    /\ source_kind = "dir"
    /\ entries \in {S \in SUBSET EnumUniverse : Cardinality(S) <= MaxEnumEntries}
    /\ format_choice \in FormatChoices
    /\ GPU_AVAILABLE = FALSE
    /\ ocr_answer = "y"
    /\ prior = {}
    /\ InitState

\* ------------------------------------------------------------------- log

\* The file opened for writing instead of appending: the message is all it holds.
LogTruncating(sink, message) == message

\* log(message), lines 39-41: message + "\n" is appended to the log file
\* and the message is printed.  A message is the sequence of the lines that
\* message + "\n" holds: one line, or more when the message has a "\n" in it.
Log(sink, message) == sink \o message

\* Several calls of log, one after the other.
RECURSIVE LogAll(_, _)
LogAll(sink, messages) ==
    IF messages = <<>> THEN sink
    ELSE LogAll(Log(sink, Head(messages)), Tail(messages))

\* ------------------------------------------------------------------ main

\* Lines 150-157: the welcome line, the input prompt and the existence test.
MainStart ==
    /\ pc_main = "start"
    /\ LET said == IF source_kind = "missing"
                   THEN << <<Line("Welcome")>>, <<Line("File or folder does not exist. Exiting.")>> >>
                   ELSE << <<Line("Welcome")>> >>
       IN  /\ log' = LogAll(log, said)
           /\ console' = LogAll(console, said)
           /\ log_calls' = log_calls + Len(said)
    /\ pc_main' = IF source_kind = "missing" THEN "exited" ELSE "format"
    /\ UNCHANGED << inputs, runs, fs, content, format_key, use_gpu, files, pool, next_job,
                    result, outcome, worker, built, checked, csv, success_count >>

\* The six messages of the format menu (lines 159-164); the first begins
\* with "\n".
Menu ==
    << <<Blank, Line("Select output format:")>>, <<Line("1. HTML")>>, <<Line("2. JSON")>>,
       <<Line("3. Markdown")>>, <<Line("4. Text")>>, <<Line("5. Doctags")>> >>

\* Lines 159-172: the menu, the format prompt and the lookup in format_map.
MainFormat ==
    /\ pc_main = "format"
    /\ format_key' = format_map(format_choice)
    /\ LET said == IF format_key' = None
                   THEN Append(Menu, <<Line("Invalid choice. Exiting.")>>)
                   ELSE Menu
       IN  /\ log' = LogAll(log, said)
           /\ console' = LogAll(console, said)
           /\ log_calls' = log_calls + Len(said)
    /\ pc_main' = IF format_key' = None THEN "exited" ELSE "enumerate"
    /\ UNCHANGED << inputs, runs, fs, content, use_gpu, files, pool, next_job,
                    result, outcome, worker, built, checked, csv, success_count >>

\* Lines 174-190: the OCR prompt (asked only when easyocr imported), the
\* file list, the banner (its last message ends with "\n"), and the pool's
\* creation with every job queued.
MainEnumerate ==
    /\ pc_main = "enumerate"
    /\ use_gpu' = (GPU_AVAILABLE /\ ocr_answer = "y")
    /\ files' \in IF source_kind = "file"
                  THEN {<<f>> : f \in entries}
                  ELSE Orders(Matching(entries))
    /\ LET said == << <<Line("====")>>, <<Line("Processing...")>>, <<Line("===="), Blank>> >>
       IN  /\ log' = LogAll(log, said)
           /\ console' = LogAll(console, said)
           /\ log_calls' = log_calls + Len(said)
    /\ pool' = "running"
    /\ result' = [j \in 1..Len(files') |-> "pending"]
    /\ outcome' = [j \in 1..Len(files') |-> TaskRecord("Queued", "none", None)]
    /\ pc_main' = "pool"
    /\ UNCHANGED << inputs, runs, fs, content, format_key, next_job, worker, built,
                    checked, csv, success_count >>

\* ------------------------------------------------------------ the pool

\* The module globals of lines 18-19; nothing in the module assigns them.
OCR_READER_GPU == None
OCR_READER_CPU == None

\* An except clause that names FileNotFoundError only.
CaughtNotFoundOnly(kind) == kind = "FileNotFoundError"

\* The except clause of process_file (line 138).
Caught(kind) == kind \in {"FileNotFoundError", "RuntimeError", "ValueError"}

\* The except clause inside the OCR step (line 123).
CaughtByOcr(kind) == kind \in {"RuntimeError", "ValueError"}

\* What an OCR engine's readtext may do.
EngineOutcomes == {"ok", "RuntimeError", "ValueError"}

\* The error Path.write_text may raise once it has opened the target file
\* (no encoding is given, and a text the locale's encoding cannot take
\* raises UnicodeEncodeError, a ValueError): the file is left, cut short.
EncodeErrors == {"ValueError"}

\* The save functions that write with write_text (lines 61 and 66); the
\* others hand the path to the document's own encoder.
WriteErrors(fn) == IF fn \in {"_save_text", "_save_doctags"} THEN EncodeErrors ELSE {}

Job(w) == worker[w].job
FileOf(w) == files[worker[w].job]

\* The task of worker w ends by raising, rec being its job's record as the
\* step left it: the pool pickles the exception as the job's result and the
\* worker process goes on to its next job.
Raise(w, rec, kind) ==
    /\ worker' = [worker EXCEPT ![w] = IdleWorker]
    /\ result' = [result EXCEPT ![Job(w)] = "raised"]
    /\ outcome' = [outcome EXCEPT ![Job(w)] = [rec EXCEPT !.status = "Raised", !.exc = kind]]

\* An exception raised inside the try block (lines 112-137): the handler of
\* line 138 takes the kinds it names, any other kind leaves process_file.
Throw(w, rec, kind) ==
    IF Caught(kind)
    THEN /\ worker' = [worker EXCEPT ![w].pc = "except", ![w].exc = kind]
         /\ outcome' = [outcome EXCEPT ![Job(w)] = rec]
         /\ UNCHANGED result
    ELSE Raise(w, rec, kind)

\* A worker process takes the next queued job (Pool.imap hands the jobs out
\* in the order of files) and enters process_file, lines 98-110: the
\* ocr_reader_gpu parameter is the None main bound with partial, so both
\* readers are constructed whenever OCR is on; a constructor that raises
\* does so outside the try block.
Take(w) ==
    /\ pool = "running"
    /\ worker[w].pc = "idle"
    /\ next_job <= Len(files)
    /\ next_job' = next_job + 1
    /\ LET started == [outcome[next_job] EXCEPT !.status = "Running", !.step = "begin",
                                                !.tasks = @ + 1]
           param == None
       IN  IF use_gpu /\ GPU_AVAILABLE /\ param = None
           THEN \E r \in {"ok", "RuntimeError"} :
                  IF r = "ok"
                  THEN /\ worker' = [worker EXCEPT ![w] =
                                       [pc |-> "convert", job |-> next_job,
                                        ocr_reader_gpu |-> Reader, ocr_reader_cpu |-> Reader,
                                        exc |-> None]]
                       /\ built' = [built EXCEPT ![w] = @ + 1]
                       /\ outcome' = [outcome EXCEPT ![next_job] = started]
                       /\ UNCHANGED result
                  ELSE /\ result' = [result EXCEPT ![next_job] = "raised"]
                       /\ outcome' = [outcome EXCEPT ![next_job] =
                                        [started EXCEPT !.status = "Raised", !.exc = r]]
                       /\ UNCHANGED << worker, built >>
           ELSE /\ worker' = [worker EXCEPT ![w] =
                                [IdleWorker EXCEPT !.pc = "convert", !.job = next_job]]
                /\ outcome' = [outcome EXCEPT ![next_job] = started]
                /\ UNCHANGED << built, result >>
    /\ UNCHANGED << inputs, runs, fs, content, log, console, log_calls, pc_main, format_key,
                    use_gpu, files, pool, checked, csv, success_count >>

\* Whether the OCR step applies to a file (the test of line 115).
NeedsOcr(f) == use_gpu /\ Lower(Suffix(f.name)) \in ocr_exts

\* Line 113: converter.convert(str(file_path)), and the test of line 115.
Convert(w) ==
    /\ pool = "running"
    /\ worker[w].pc = "convert"
    /\ LET rec == [outcome[Job(w)] EXCEPT !.step = "convert", !.converts = @ + 1]
       IN  \E r \in {"ok"} \cup ConvertErrors :
             IF r = "ok"
             THEN /\ worker' = [worker EXCEPT ![w].pc = IF NeedsOcr(FileOf(w)) THEN "ocr" ELSE "mkdir"]
                  /\ outcome' = [outcome EXCEPT ![Job(w)] = rec]
                  /\ UNCHANGED result
             ELSE Throw(w, rec, r)
    /\ UNCHANGED << inputs, runs, fs, content, log, console, log_calls, pc_main, format_key,
                    use_gpu, files, pool, next_job, built, checked, csv, success_count >>

\* Lines 115-130 as a function of what the engines would do when called:
\* the messages logged and the exception that leaves the step (None if
\* none).  readtext is looked up on the module global OCR_READER_GPU; the
\* fallback is guarded by the module global OCR_READER_CPU and then by the
\* local ocr_reader_cpu.
OcrStep(name, gpu_available, local_cpu, gpu_does, cpu_does) ==
    LET fallback ==
          IF OCR_READER_CPU # None /\ local_cpu # None
          THEN IF cpu_does = "ok"
               THEN [lines |-> << <<FileLine("GPU OCR failed, falling back to CPU OCR", name, "")>>,
                                  <<FileLine("CPU OCR result", name, "lines detected")>> >>,
                     exc |-> None, cpu_calls |-> 1]
               ELSE [lines |-> << <<FileLine("GPU OCR failed, falling back to CPU OCR", name, "")>> >>,
                     exc |-> cpu_does, cpu_calls |-> 1]
          ELSE [lines |-> <<>>, exc |-> None, cpu_calls |-> 0]
    IN  IF gpu_available
        THEN IF OCR_READER_GPU = None
             THEN [lines |-> <<>>, exc |-> "AttributeError", cpu_calls |-> 0]
             ELSE IF gpu_does = "ok"
                  THEN [lines |-> << <<FileLine("GPU OCR result", name, "lines detected")>> >>,
                        exc |-> None, cpu_calls |-> 0]
                  ELSE IF CaughtByOcr(gpu_does)
                  THEN fallback
                  ELSE [lines |-> <<>>, exc |-> gpu_does, cpu_calls |-> 0]
        ELSE IF CaughtByOcr("RuntimeError")
             THEN fallback
             ELSE [lines |-> <<>>, exc |-> "RuntimeError", cpu_calls |-> 0]

OcrFacts(w, g, o) ==
    [gpu_does |-> g, handle |-> worker[w].ocr_reader_cpu, cpu_calls |-> o.cpu_calls]

\* Lines 116-130: the OCR step of an image job when OCR is on.  An exception
\* that leaves the step meets the handler of line 138 like any other.
Ocr(w) ==
    /\ pool = "running"
    /\ worker[w].pc = "ocr"
    /\ \E g \in EngineOutcomes, c \in EngineOutcomes :
         LET o == OcrStep(FileOf(w).name, GPU_AVAILABLE, worker[w].ocr_reader_cpu, g, c)
             rec == [outcome[Job(w)] EXCEPT !.step = "ocr", !.ocr = OcrFacts(w, g, o)]
         IN  /\ log' = LogAll(log, o.lines)
             /\ console' = LogAll(console, o.lines)
             /\ log_calls' = log_calls + Len(o.lines)
             /\ IF o.exc = None
                THEN /\ worker' = [worker EXCEPT ![w].pc = "mkdir"]
                     /\ outcome' = [outcome EXCEPT ![Job(w)] = rec]
                     /\ UNCHANGED result
                ELSE Throw(w, rec, o.exc)
    /\ UNCHANGED << inputs, runs, fs, content, pc_main, format_key, use_gpu, files, pool,
                    next_job, built, checked, csv, success_count >>

\* Lines 132-135: the target directory is computed and created.
Mkdir(w) ==
    /\ pool = "running"
    /\ worker[w].pc = "mkdir"
    /\ LET target_dir == TargetDir(FileOf(w), format_key)
           rec == [outcome[Job(w)] EXCEPT !.step = "mkdir"]
       IN  \E r \in {"ok"} \cup IoErrors :
             IF r = "ok"
             THEN /\ fs' = MkdirParents(fs, target_dir)
                  /\ worker' = [worker EXCEPT ![w].pc = "save"]
                  /\ outcome' = [outcome EXCEPT ![Job(w)] = [rec EXCEPT !.made = {target_dir}]]
                  /\ UNCHANGED result
             ELSE /\ Throw(w, rec, r)
                  /\ UNCHANGED fs
    /\ UNCHANGED << inputs, runs, content, log, console, log_calls, pc_main, format_key,
                    use_gpu, files, pool, next_job, built, checked, csv, success_count >>

\* Lines 136-137, first half: target_file is computed from ext and
\* format_key (main passes the format key for both) and save_func writes
\* it.  The write fails before the file is opened or, with write_text,
\* once it is open.
Save(w) ==
    /\ pool = "running"
    /\ worker[w].pc = "save"
    /\ LET ext == format_key
           target_file == TargetFile(FileOf(w), ext, format_key)
           save_func == handlers(format_key)
           rec == [outcome[Job(w)] EXCEPT !.step = "save", !.target = target_file,
                                          !.encoders = Append(@, save_func)]
           opened == [rec EXCEPT !.wrote = @ \cup {target_file}]
       IN  \E r \in {"ok"} \cup IoErrors \cup WriteErrors(save_func) :
             CASE r = "ok" ->
                    /\ fs' = fs \cup {target_file}
                    /\ content' = Overwrite(content, target_file, FileOf(w), TRUE)
                    /\ worker' = [worker EXCEPT ![w].pc = "saved"]
                    /\ outcome' = [outcome EXCEPT ![Job(w)] = opened]
                    /\ UNCHANGED result
               [] r \in EncodeErrors ->
                    /\ fs' = fs \cup {target_file}
                    /\ content' = Overwrite(content, target_file, FileOf(w), FALSE)
                    /\ Throw(w, opened, r)
               [] OTHER ->
                    /\ Throw(w, rec, r)
                    /\ UNCHANGED << fs, content >>
    /\ UNCHANGED << inputs, runs, log, console, log_calls, pc_main, format_key, use_gpu,
                    files, pool, next_job, built, checked, csv, success_count >>

\* Second half: save_func logs the saved path and process_file returns.
Saved(w) ==
    /\ pool = "running"
    /\ worker[w].pc = "saved"
    /\ LET message == << PathLine(SavedWord(handlers(format_key)), outcome[Job(w)].target) >>
       IN  /\ log' = Log(log, message)
           /\ console' = Log(console, message)
           /\ log_calls' = log_calls + 1
    /\ worker' = [worker EXCEPT ![w] = IdleWorker]
    /\ result' = [result EXCEPT ![Job(w)] = "returned"]
    /\ outcome' = [outcome EXCEPT ![Job(w)].status = "Saved"]
    /\ UNCHANGED << inputs, runs, fs, content, pc_main, format_key, use_gpu, files, pool,
                    next_job, built, checked, csv, success_count >>

\* Lines 138-139: the handler logs the error and process_file returns.
Except(w) ==
    /\ pool = "running"
    /\ worker[w].pc = "except"
    /\ LET message == << FileLine("Error processing", FileOf(w).name, worker[w].exc) >>
       IN  /\ log' = Log(log, message)
           /\ console' = Log(console, message)
           /\ log_calls' = log_calls + 1
    /\ worker' = [worker EXCEPT ![w] = IdleWorker]
    /\ result' = [result EXCEPT ![Job(w)] = "returned"]
    /\ outcome' = [outcome EXCEPT ![Job(w)].status = "Failed", ![Job(w)].exc = worker[w].exc]
    /\ UNCHANGED << inputs, runs, fs, content, pc_main, format_key, use_gpu, files, pool,
                    next_job, built, checked, csv, success_count >>

\* How many results list(tqdm(pool.imap(...))) can have consumed: imap
\* yields the results in the order of files, so main blocks on the first
\* job that has not returned.
Collected ==
    Cardinality({j \in 1..Len(files) : \A i \in 1..j : result[i] = "returned"})

\* The next result in the order of files is an exception: next() raises it
\* again in main, the with block terminates the pool (killing the tasks
\* that still run) and main ends with that exception, before line 202.
MainReraise ==
    /\ pc_main = "pool"
    /\ Collected < Len(files)
    /\ result[Collected + 1] = "raised"
    /\ pc_main' = "crashed"
    /\ pool' = "terminated"
    /\ UNCHANGED << inputs, runs, fs, content, log, console, log_calls, format_key, use_gpu,
                    files, next_job, result, outcome, worker, built, checked, csv,
                    success_count >>

\* The with block left as soon as every job has been handed to a worker
\* (the iterator of imap not consumed).
MainDrainedEarly ==
    /\ pc_main = "pool"
    /\ next_job > Len(files)
    /\ pool' = "terminated"
    /\ pc_main' = "post"
    /\ UNCHANGED << inputs, runs, fs, content, log, console, log_calls, format_key, use_gpu,
                    files, next_job, result, outcome, worker, built, checked, csv,
                    success_count >>

\* Every result consumed: the with block ends and terminates the pool.
MainDrained ==
    /\ pc_main = "pool"
    /\ Collected = Len(files)
    /\ pool' = "terminated"
    /\ pc_main' = "post"
    /\ UNCHANGED << inputs, runs, fs, content, log, console, log_calls, format_key, use_gpu,
                    files, next_job, result, outcome, worker, built, checked, csv,
                    success_count >>

\* --------------------------------------------------------------- summary

\* The status column taken from what the tasks did instead of the tree.
StatusRecorded(f) ==
    IF \E j \in 1..Len(files) : files[j] = f /\ outcome[j].status = "Saved"
    THEN "Success" ELSE "Failed"

\* The status column telling a file of this run from one found before it.
StatusFresh(f) ==
    IF Exists(fs, OutputPath(f, format_key)) /\ ~Exists(prior, OutputPath(f, format_key))
    THEN "Success" ELSE "Failed"

\* The status column of a row (line 219).
Status(f) == IF Exists(fs, OutputPath(f, format_key)) THEN "Success" ELSE "Failed"

\* The count taken over the distinct output paths instead of the jobs.
SuccessCountOfPaths(tree, jobs, key) ==
    Cardinality({OutputPath(jobs[j], key) : j \in 1..Len(jobs)} \cap tree)

\* success_count of lines 206-208: the jobs whose output path exists.
SuccessCount(tree, jobs, key) ==
    Cardinality({j \in 1..Len(jobs) : Exists(tree, OutputPath(jobs[j], key))})

\* Lines 202-209: three messages (the first begins with "\n"), then the
\* first scan of the output tree.
MainCount ==
    /\ pc_main = "post"
    /\ LET said == << <<Blank, Line("Total document processing time")>>, <<Line("====")>>,
                      <<Line("done!")>> >>
       IN  /\ log' = LogAll(log, said)
           /\ console' = LogAll(console, said)
           /\ log_calls' = log_calls + Len(said)
    /\ success_count' = SuccessCount(fs, files, format_key)
    /\ checked' = checked \o [j \in 1..Len(files) |-> OutputPath(files[j], format_key)]
    /\ pc_main' = "csv"
    /\ UNCHANGED << inputs, runs, fs, content, format_key, use_gpu, files, pool, next_job,
                    result, outcome, worker, built, csv >>

Header == [File |-> "File", Status |-> "Status", Timestamp |-> "Timestamp"]

\* Lines 211-215: csv_path.open("w") needs base_output_dir to exist, which
\* only a task's mkdir (or an earlier run) creates; then the header row.
MainOpenCsv ==
    /\ pc_main = "csv"
    /\ IF Exists(fs, base_output_dir)
       THEN /\ fs' = fs \cup {csv_path}
            /\ csv' = << Header >>
            /\ pc_main' = "rows"
       ELSE /\ pc_main' = "crashed"
            /\ UNCHANGED << fs, csv >>
    /\ UNCHANGED << inputs, runs, content, log, console, log_calls, format_key, use_gpu,
                    files, pool, next_job, result, outcome, worker, built, checked,
                    success_count >>

\* Lines 216-220: the row of the next job, from a second scan.
MainWriteRow ==
    /\ pc_main = "rows"
    /\ Len(csv) <= Len(files)
    /\ csv' = Append(csv, [File |-> files[Len(csv)], Status |-> Status(files[Len(csv)]),
                           Timestamp |-> "now"])
    /\ checked' = Append(checked, OutputPath(files[Len(csv)], format_key))
    /\ UNCHANGED << inputs, runs, fs, content, log, console, log_calls, pc_main, format_key,
                    use_gpu, files, pool, next_job, result, outcome, worker, built,
                    success_count >>

\* Lines 221-226: the counts, and the warning of an empty job list.
MainReport ==
    /\ pc_main = "rows"
    /\ Len(csv) = Len(files) + 1
    /\ LET failure_count == Len(files) - success_count
           counts == << <<CountLine("Successfully converted", success_count)>>,
                        <<CountLine("Failed conversions", failure_count)>>,
                        <<CountLine("Total files processed", Len(files))>> >>
           said == IF Len(files) = 0
                   THEN counts \o << <<Line("Warning: No supported input files were found.")>>,
                                     <<Line("====")>> >>
                   ELSE Append(counts, <<Line("====")>>)
       IN  /\ log' = LogAll(log, said)
           /\ console' = LogAll(console, said)
           /\ log_calls' = log_calls + Len(said)
    /\ pc_main' = "done"
    /\ UNCHANGED << inputs, runs, fs, content, format_key, use_gpu, files, pool, next_job,
                    result, outcome, worker, built, checked, csv, success_count >>

Next ==
    \/ MainStart
    \/ MainFormat
    \/ MainEnumerate
    \/ \E w \in Workers : Take(w)
    \/ \E w \in Workers : Convert(w)
    \/ \E w \in Workers : Ocr(w)
    \/ \E w \in Workers : Mkdir(w)
    \/ \E w \in Workers : Save(w)
    \/ \E w \in Workers : Saved(w)
    \/ \E w \in Workers : Except(w)
    \/ MainReraise
    \/ MainDrained
    \/ MainCount
    \/ MainOpenCsv
    \/ MainWriteRow
    \/ MainReport

Spec == Init /\ [][Next]_vars

\* main up to the file list, over directories of any content.
NextEnum ==
    \/ MainStart
    \/ MainFormat
    \/ MainEnumerate

SpecEnum == InitEnum /\ [][NextEnum]_vars

\* ----------------------------------------------------------- a second run

\* The steps of process_file in the order it enters them.
StepRank(step) ==
    CASE step = "none" -> 0
      [] step = "begin" -> 1
      [] step = "convert" -> 2
      [] step = "ocr" -> 3
      [] step = "mkdir" -> 4
      [] step = "save" -> 5

\* In a second run the collaborators (the readers' constructor, convert,
\* the OCR engines, mkdir and the encoders) do with job j what they did
\* with it in the first: its task gets no further than it got then, an
\* error it is handling is the error it met then at that step, and a task
\* that has ended has ended the way it did then.
SameAsFirst(j) ==
    LET o == outcome[j]
        F == first.outcome[j]
        at == {w \in Workers : worker[w].job = j}
    IN  /\ o.ocr \in {NoOcr, F.ocr}
        /\ o.status \in {"Saved", "Failed", "Raised"} =>
             o.status = F.status /\ o.step = F.step /\ o.exc = F.exc
        /\ o.status = "Running" =>
             /\ StepRank(o.step) <= StepRank(F.step)
             /\ (o.step = F.step /\ F.status = "Raised") => FALSE
             /\ (o.step = F.step /\ F.status = "Failed") =>
                  \A w \in at : worker[w].pc = "except" /\ worker[w].exc = F.exc
             /\ \A w \in at :
                  worker[w].pc = "except" =>
                      o.step = F.step /\ F.status = "Failed" /\ worker[w].exc = F.exc

\* The directory is listed in the order it was listed in before.
Replayed ==
    run = 2 =>
        /\ files \in {<<>>, first.files}
        /\ \A j \in 1..Len(files) : SameAsFirst(j)

\* The program is started again on the same input with the same answers,
\* after a run in which every job's task ran to its end: the output tree,
\* its files and the log are as the first run left them.
MainAgain ==
    /\ run = 1
    /\ pc_main \in {"done", "crashed", "exited"}
    /\ \A j \in 1..Len(files) : outcome[j].status \in {"Saved", "Failed", "Raised"}
    /\ run' = 2
    /\ first' = [pc |-> pc_main, files |-> files, outcome |-> outcome, fs |-> fs,
                 content |-> content, csv |-> csv, log |-> log]
    /\ prior' = fs
    /\ pc_main' = "start"
    /\ format_key' = None
    /\ use_gpu' = FALSE
    /\ files' = <<>>
    /\ pool' = "none"
    /\ next_job' = 1
    /\ result' = <<>>
    /\ outcome' = <<>>
    /\ worker' = [w \in Workers |-> IdleWorker]
    /\ built' = [w \in Workers |-> 0]
    /\ checked' = <<>>
    /\ csv' = <<>>
    /\ success_count' = 0
    /\ UNCHANGED << source_kind, entries, format_choice, ocr_answer, GPU_AVAILABLE,
                    fs, content, log, console, log_calls >>

\* What a run that is repeated is given.
InitRerun ==
    /\ source_kind = "dir"
    /\ entries \in SUBSET RerunUniverse
    /\ format_choice = "2"
    /\ GPU_AVAILABLE \in BOOLEAN
    /\ ocr_answer = "y"
    /\ prior = {}
    /\ InitState

NextRerun ==
    \/ MainStart /\ Replayed'
    \/ MainFormat /\ Replayed'
    \/ MainEnumerate /\ Replayed'
    \/ \E w \in Workers : Take(w) /\ Replayed'
    \/ \E w \in Workers : Convert(w) /\ Replayed'
    \/ \E w \in Workers : Ocr(w) /\ Replayed'
    \/ \E w \in Workers : Mkdir(w) /\ Replayed'
    \/ \E w \in Workers : Save(w) /\ Replayed'
    \/ \E w \in Workers : Saved(w) /\ Replayed'
    \/ \E w \in Workers : Except(w) /\ Replayed'
    \/ MainReraise /\ Replayed'
    \/ MainDrained /\ Replayed'
    \/ MainCount /\ Replayed'
    \/ MainOpenCsv /\ Replayed'
    \/ MainWriteRow /\ Replayed'
    \/ MainReport /\ Replayed'
    \/ MainAgain

SpecRerun == InitRerun /\ [][NextRerun]_vars

\* ---------------------------------------------------------------- claims

Jobs == 1..Len(files)

\* main has left the pool with every result consumed.
Drained == pc_main \in {"post", "csv", "rows", "done"} \/ (pc_main = "crashed" /\ \A j \in Jobs : result[j] = "returned")

\* Line a is in the log before line b.
LoggedInOrder(a, b) ==
    \E i, k \in 1..Len(log) : i < k /\ log[i] = a /\ log[k] = b

ErrorLine(j) == FileLine("Error processing", files[j].name, outcome[j].exc)
FallbackLine(j) == FileLine("GPU OCR failed, falling back to CPU OCR", files[j].name, "")
CpuCountLine(j) == FileLine("CPU OCR result", files[j].name, "lines detected")

IsImage(f) == Lower(Suffix(f.name)) \in ocr_exts

\* C1: an exception raised in a task's convert, OCR, directory or save step
\* never leaves the task: the task ends Failed with its error logged under
\* the file's name, main does not end with it, and the pool is terminated
\* only when every job has been run to its end.
C1_TaskFailuresContained ==
    /\ \A j \in Jobs :
         /\ ~(outcome[j].status = "Raised" /\ outcome[j].step \in {"convert", "ocr", "mkdir", "save"})
         /\ outcome[j].status = "Failed" => \E i \in 1..Len(log) : log[i] = ErrorLine(j)
    /\ pool = "terminated" => \A j \in Jobs : outcome[j].status \in {"Saved", "Failed"}

\* C2: once the pool has drained and main has ended, the summary holds the
\* header and one row per job, in the order of the jobs.
C2_SummaryAlwaysWritten ==
    (Drained /\ pc_main \in {"done", "crashed"}) =>
        /\ Len(csv) = Len(files) + 1
        /\ csv[1] = Header
        /\ \A j \in Jobs : csv[j + 1].File = files[j]
        /\ Exists(fs, csv_path)

\* C3: every row written says "Success" when the job's output path is in
\* the output tree and "Failed" when it is not, whatever the task recorded.
C3_RowStatusIsAudit ==
    \A k \in 2..Len(csv) :
        /\ csv[k].File = files[k - 1]
        /\ csv[k].Status = (IF OutputPath(csv[k].File, format_key) \in fs THEN "Success" ELSE "Failed")

\* A finished summary with a "Success" row of a task that failed and a
\* "Failed" row.
C3_Witness ==
    /\ pc_main = "done"
    /\ \E k \in 2..Len(csv) : csv[k].Status = "Success" /\ outcome[k - 1].status = "Failed"
    /\ \E k \in 2..Len(csv) : csv[k].Status = "Failed"

ZeroSummary ==
    << CountLine("Successfully converted", 0), CountLine("Failed conversions", 0),
       CountLine("Total files processed", 0),
       Line("Warning: No supported input files were found."), Line("====") >>

\* C4: a directory without a supported file is no error: no job is handed
\* out, main does not end with an exception, and it ends with the counts
\* 0 / 0 / 0 and the warning as the last lines of the log.
C4_EmptyRunCompletes ==
    (source_kind = "dir" /\ Matching(entries) = {}) =>
        /\ next_job = 1
        /\ pc_main # "crashed"
        /\ pc_main = "done" =>
             /\ Len(log) >= 5
             /\ SubSeq(log, Len(log) - 4, Len(log)) = ZeroSummary

ValidChoices == {"1", "2", "3", "4", "5"}

\* C5: with the input path missing or the format choice not one of the
\* five, main logs its message and returns before any processing: no pool,
\* no job handed out, the output tree untouched, no summary.
C5_AbortBeforeProcessing ==
    (source_kind = "missing" \/ format_choice \notin ValidChoices) =>
        /\ pc_main \in {"start", "format", "exited"}
        /\ pool = "none" /\ next_job = 1 /\ files = <<>>
        /\ fs = prior
        /\ csv = <<>>
        /\ pc_main = "exited" =>
             log[Len(log)] = (IF source_kind = "missing"
                              THEN Line("File or folder does not exist. Exiting.")
                              ELSE Line("Invalid choice. Exiting."))

\* main has returned on an invalid format choice given for an existing path.
C5_Witness ==
    /\ pc_main = "exited"
    /\ source_kind # "missing"
    /\ format_choice \notin ValidChoices
    /\ prior # {}

\* C6: no task ends in its OCR step: a job whose conversion succeeded goes
\* on to its directory and its save whatever the OCR step met.
C6_OcrNeverEndsTask ==
    \A j \in Jobs : ~(outcome[j].step = "ocr" /\ outcome[j].status \in {"Raised", "Failed"})

\* C7: for an image job with OCR on whose file makes the accelerated engine
\* raise a runtime or value error, run by a task that holds a standard
\* handle: once its OCR step is over, the standard engine was called once
\* and the log has the falling-back line and then the standard count.
C7_FallbackFollows ==
    \A j \in Jobs :
        ( /\ use_gpu /\ IsImage(files[j])
          /\ outcome[j].ocr.gpu_does \in {"RuntimeError", "ValueError"}
          /\ outcome[j].ocr.handle # None )
        => /\ outcome[j].ocr.cpu_calls = 1
           /\ LoggedInOrder(FallbackLine(j), CpuCountLine(j))

\* C8: no worker process constructs its readers more than once.
C8_ReadersBuiltOnce ==
    \A w \in Workers : built[w] <= 1

\* C9: a single image file, the user wanting OCR, easyocr missing: when the
\* job has saved, the standard engine was called if the task held a handle,
\* and the log has the falling-back line and then the standard count.
C9_UnavailableFallsBack ==
    ( /\ source_kind = "file" /\ ocr_answer = "y" /\ ~GPU_AVAILABLE
      /\ Len(files) = 1 /\ IsImage(files[1])
      /\ outcome[1].status = "Saved" )
    => /\ outcome[1].ocr.handle # None => outcome[1].ocr.cpu_calls = 1
       /\ LoggedInOrder(FallbackLine(1), CpuCountLine(1))

Range(q) == {q[i] : i \in 1..Len(q)}

\* C10: for a directory input the job list holds exactly the descendant
\* files (not directories) whose lower-cased extension is supported.
C10_JobsAreMatchingFiles ==
    (source_kind = "dir" /\ pc_main \notin {"start", "format", "enumerate", "exited"}) =>
        Range(files) = {f \in RGlob(entries) : ~f.isdir /\ Lower(Suffix(f.name)) \in supported_exts}

\* The job a test of main was made for: the first scan tests the jobs in
\* order, then each row tests its own.
JobOfCheck(i) == IF i <= Len(files) THEN i ELSE i - Len(files)

\* outputRoot / formatKey / inputBaseName / relative parent / (stem "." ext)
MappedPath(outputRoot, formatKey, inputBaseName, f, ext) ==
    outputRoot \o << Chars(formatKey), inputBaseName >> \o f.dir
        \o << Stem(f.name) \o <<Dot>> \o Chars(ext) >>

\* C11: the target file a job's task computed and the path main tested for
\* that job, in its count and in its row, are the same path, and it is
\* output root / format key / input base name / relative parent /
\* (stem + "." + extension).
C11_PathsAgree ==
    /\ \A j \in Jobs :
         outcome[j].target # <<>> =>
             outcome[j].target =
                 MappedPath(base_output_dir, format_key, InputBaseName, files[j], format_key)
    /\ \A i \in 1..Len(checked) :
         /\ checked[i] =
                MappedPath(base_output_dir, format_key, InputBaseName, files[JobOfCheck(i)], format_key)
         /\ outcome[JobOfCheck(i)].target \in {<<>>, checked[i]}

\* A finished summary of a run whose task for a file one level down, with
\* an upper-case extension, computed its target.
C11_Witness ==
    /\ pc_main = "done"
    /\ Len(checked) = 2 * Len(files)
    /\ \E j \in Jobs : files[j].dir # <<>> /\ outcome[j].target # <<>>

\* The save of job j's task has returned without an exception.
SaveDone(j) ==
    \/ outcome[j].status = "Saved"
    \/ \E w \in Workers : worker[w].job = j /\ worker[w].pc = "saved"

SavedLine(j) == PathLine(SavedWord(handlers(format_key)), outcome[j].target)

\* main has begun its audit: a path tested, the summary opened, or main past
\* the with block of the pool.
AuditBegun ==
    Len(checked) > 0 \/ Len(csv) > 0 \/ pc_main \in {"post", "csv", "rows", "done"}

\* C13: whenever main has begun its audit, every job's result has been
\* consumed, every task has run to its end, the pool is terminated and no
\* worker is inside a task; so no path is tested and no row written while
\* a task runs.
C13_AuditAfterBarrier ==
    AuditBegun =>
        /\ pool = "terminated"
        /\ Collected = Len(files)
        /\ \A j \in Jobs : result[j] = "returned" /\ outcome[j].status \in {"Saved", "Failed"}
        /\ \A w \in Workers : worker[w].pc = "idle"

\* A finished summary of two jobs, the second of which saved before the
\* first failed.
C13_Witness ==
    /\ pc_main = "done"
    /\ Len(files) = 2 /\ Len(csv) = 3
    /\ outcome[1].status = "Failed" /\ outcome[2].status = "Saved"
    /\ LoggedInOrder(SavedLine(2), ErrorLine(1))

\* main has ended, with or without an exception.
MainEnded == pc_main \in {"done", "crashed"}

\* C14: no job is given to a task twice, no two workers hold the same job,
\* the jobs are handed out in the order of the job list, and when main has
\* ended every job was run by one task, to its end.
C14_ConsumedOnce ==
    /\ \A j \in Jobs : outcome[j].tasks <= 1
    /\ \A v, w \in Workers : (v # w /\ worker[v].job # 0) => worker[v].job # worker[w].job
    /\ \A i, j \in Jobs : (i < j /\ outcome[j].tasks = 1) => outcome[i].tasks = 1
    /\ MainEnded =>
         \A j \in Jobs : outcome[j].tasks = 1 /\ outcome[j].status \in {"Saved", "Failed", "Raised"}

\* The mapped path of job j.
PathOf(j) == MappedPath(base_output_dir, format_key, InputBaseName, files[j], format_key)

\* C15: nothing the run found in the output tree is removed, and the row of
\* a job whose task failed reads "Success" when a file was at the job's
\* path before the run.
C15_StaleReadsSuccess ==
    /\ prior \subseteq fs
    /\ \A k \in 2..Len(csv) :
         (Exists(prior, PathOf(k - 1)) /\ outcome[k - 1].status = "Failed")
             => csv[k].Status = "Success"

\* A finished summary with a "Success" row of a job whose task failed
\* before it opened any file, the file of the earlier run still as it was.
C15_Witness ==
    /\ pc_main = "done"
    /\ \E k \in 2..Len(csv) :
         /\ Exists(prior, PathOf(k - 1))
         /\ outcome[k - 1].status = "Failed" /\ outcome[k - 1].wrote = {}
         /\ csv[k].Status = "Success"
    /\ StaleContent \subseteq content

\* The status column of a summary, row by row.
Statuses(rows) == [k \in 1..Len(rows) |-> rows[k].Status]

\* C16: a second run of the same input and format after a first run that
\* wrote its summary, the collaborators doing with each job what they did
\* before: main does not end with an exception, and when it has ended each
\* task that saved before has written its file again, the output tree
\* holds the same files with the same content, and the summary has the
\* same statuses.
C16_RerunIdempotent ==
    (run = 2 /\ first.pc = "done") =>
        /\ pc_main # "crashed"
        /\ pc_main = "done" =>
             /\ \A j \in Jobs :
                  first.outcome[j].status = "Saved" =>
                      outcome[j].status = "Saved" /\ outcome[j].wrote = first.outcome[j].wrote
             /\ fs = first.fs
             /\ content = first.content
             /\ Statuses(csv) = Statuses(first.csv)

\* The three kinds of error of convert the claim names.
ConvertFailures == {"FileNotFoundError", "RuntimeError", "ValueError"}

\* convert raised one of the three kinds for job j.
ConvertFailed(j) ==
    /\ outcome[j].step = "convert"
    /\ \/ outcome[j].status \in {"Failed", "Raised"} /\ outcome[j].exc \in ConvertFailures
       \/ \E w \in Workers :
            worker[w].job = j /\ worker[w].pc = "except" /\ worker[w].exc \in ConvertFailures

IsPrefix(a, b) == Len(a) <= Len(b) /\ SubSeq(b, 1, Len(a)) = a

RowsWith(status) == {k \in 2..Len(csv) : csv[k].Status = status}

\* The numbers the log gives under a message.
Logged(msg) == {log[i].n : i \in {k \in 1..Len(log) : log[k].msg = msg}}

\* C19: when main has ended with its summary, the three counts it logged
\* are the number of "Success" rows, the number of "Failed" rows and the
\* number of jobs, and the first two add up to the third.
C19_CountsAgree ==
    pc_main = "done" =>
        /\ Logged("Successfully converted") = {Cardinality(RowsWith("Success"))}
        /\ Logged("Failed conversions") = {Cardinality(RowsWith("Failed"))}
        /\ Logged("Total files processed") = {Len(files)}
        /\ Cardinality(RowsWith("Success")) + Cardinality(RowsWith("Failed")) = Len(files)
        /\ Len(csv) = Len(files) + 1

\* A finished summary of two jobs that map to one output path, both rows
\* "Success".
C19_Witness ==
    /\ pc_main = "done"
    /\ Len(files) = 2
    /\ PathOf(1) = PathOf(2)
    /\ Cardinality(RowsWith("Success")) = 2

\* No file was at any job's output path before the run.
NothingStale == \A j \in Jobs : ~Exists(prior, PathOf(j))

\* No two jobs of the run map to one output path.
NoCollision == \A i, j \in Jobs : PathOf(i) = PathOf(j) => i = j

\* C20: in a run that writes its summary and found no file at any job's
\* output path, with no two jobs on one path, a job's row reads "Success"
\* exactly when its own task saved; and with two jobs on one path of which
\* one alone saved, both their rows read "Success".
C20_SuccessIffOwnSave ==
    (pc_main \in {"rows", "done"} /\ NothingStale) =>
        /\ NoCollision =>
             \A k \in 2..Len(csv) :
                 csv[k].Status = "Success" <=> outcome[k - 1].status = "Saved"
        /\ \A k, l \in 2..Len(csv) :
             ( /\ k # l /\ PathOf(k - 1) = PathOf(l - 1)
               /\ outcome[k - 1].status = "Saved" /\ outcome[l - 1].status # "Saved" )
             => csv[k].Status = "Success" /\ csv[l].Status = "Success"

====
